---- MODULE Spec2Model ----
(***************************************************************************)
(* Verification model of the image-processing application:                 *)
(*   - the AI microservice (FastAPI): session lifecycle, /remove-background,*)
(*     /health, /switch-model and its statistics;                          *)
(*   - the Express backend: upload limits, validation middleware, routes   *)
(*     and the ImageService proxy to the AI microservice;                  *)
(*   - the Angular ImageService: request URLs and progress statuses;       *)
(*   - the Background Remover page, the LanguageService, the crop controls *)
(*     and the editor's face swap with its backend route;                  *)
(*   - the file-system image repository.                                   *)
(* Each subsystem has its own specification (SpecAI, SpecBackend,          *)
(* SpecFrontend, SpecRemover, SpecLanguage, SpecCrop, SpecFaceSwap,        *)
(* SpecRepository) over the shared variables; the variables of the other   *)
(* subsystems stay at their idle values.                                   *)
(***************************************************************************)
EXTENDS Integers, Sequences, FiniteSets, TLC

VARIABLES
  \* ---- AI microservice
  phase,            \* "starting" | "serving" | "failed" (lifespan position)
  rembg_session,    \* global rembg_session
  rembg_sessions,   \* global rembg_sessions dictionary: model name -> session
  stats,            \* global stats dictionary
  now,              \* time.time(), in whole time units
  nextId,           \* identity of the next session object new_session creates
  started,          \* number of /remove-background requests received so far
  req,              \* in-flight /remove-background coroutines, by slot
  resp,             \* the response the service sent last
  hist,             \* observation: images returned and their processing times
  \* ---- Express backend
  bePc,             \* position of the request in the middleware chain
  beReq,            \* the request: route, uploaded files, query as sent and as parsed
  beRes,            \* the response sent
  beStats,          \* ImageService.stats
  aiCall,           \* the request ImageService made to the AI service
  layers,           \* observation: the model identifier seen at each layer
  \* ---- Angular ImageService
  fePc,             \* position of the HTTP request of the current call
  feReq,            \* the current call: operation, its option, the transfer totals
  feLoaded,         \* progress events seen in the current transfer
  uploadProgress,   \* current value of uploadProgressSubject
  published,        \* observation: statuses published during the current call
  feResult,         \* the value the map callback returned last
  \* ---- Background Remover page
  uploadedImage,    \* BackgroundRemoverComponent.uploadedImage
  isProcessing,     \* BackgroundRemoverComponent.isProcessing
  imageProcessor,   \* the ImageProcessorComponent on the page (id 0: none)
  pending,          \* removeBackground subscriptions still waiting
  removals,         \* number of onImageRemoved calls so far
  uploads,          \* number of images uploaded so far
  procIds,          \* number of processor instances created so far
  afterRemoved,     \* observation: the fields just after the last onImageRemoved
  \* ---- LanguageService
  langPc,           \* LanguageService: "new" before its constructor, then "ready"
  translate,        \* the TranslateService
  localStorageItem, \* localStorage item 'ai-image-language'
  langRequested,    \* observation: the language the last setLanguage call asked for
  langCalls,        \* number of setLanguage calls so far
  \* ---- CropControlsComponent
  width,            \* CropControlsComponent.width
  height,           \* CropControlsComponent.height
  aspectRatio,      \* CropControlsComponent.aspectRatio
  autoDetect,       \* CropControlsComponent.autoDetect
  emitted,          \* the options emitted last on optionsChanged
  lastChange,       \* observation: the handler that ran last
  asSet,            \* observation: width and height as they stood when that handler began
  \* ---- face swap
  fsPc,             \* position of the face-swap request in the middleware chain
  fsReq,            \* the face-swap request: origin, mode and the files of each field
  fsRes,            \* the response sent
  fsAiCalls,        \* AI-service calls made for the request
  editor,           \* EditorComponent: files present, face-swap mode, last warning
  \* ---- FileSystemImageRepository
  images,           \* FileSystemImageRepository.images (the index)
  uploadDirReady,   \* the upload directory exists
  disk,             \* names of the files in the upload directory
  uuids,            \* number of ids uuidv4 has returned
  repoOps,          \* save and delete calls waiting on the file system
  savedImages,      \* observation: the images save has returned
  deletedIds,       \* observation: the ids delete has returned true for
  repoResult,       \* what the last operation returned
  lastDelete        \* observation: the last delete that reached unlink

aiVars == <<phase, rembg_session, rembg_sessions, stats, now, nextId, started, req, resp, hist>>

beVars == <<bePc, beReq, beRes, beStats, aiCall, layers>>

feVars == <<fePc, feReq, feLoaded, uploadProgress, published, feResult>>

brVars == <<uploadedImage, isProcessing, imageProcessor, pending, removals, uploads,
           procIds, afterRemoved>>

langVars == <<langPc, translate, localStorageItem, langRequested, langCalls>>

cropVars == <<width, height, aspectRatio, autoDetect, emitted, lastChange, asSet>>

fsVars == <<fsPc, fsReq, fsRes, fsAiCalls, editor>>

repoVars == <<images, uploadDirReady, disk, uuids, repoOps, savedImages, deletedIds, repoResult, lastDelete>>

vars == <<aiVars, beVars, feVars, brVars, langVars, cropVars, fsVars, repoVars>>

\* the variables of the other subsystems
notAI == <<beVars, feVars, brVars, langVars, cropVars, fsVars, repoVars>>

notBE == <<aiVars, feVars, brVars, langVars, cropVars, fsVars, repoVars>>

notFE == <<aiVars, beVars, brVars, langVars, cropVars, fsVars, repoVars>>

notBR == <<aiVars, beVars, feVars, langVars, cropVars, fsVars, repoVars>>

notLang == <<aiVars, beVars, feVars, brVars, cropVars, fsVars, repoVars>>

notCrop == <<aiVars, beVars, feVars, brVars, langVars, fsVars, repoVars>>

notFS == <<aiVars, beVars, feVars, brVars, langVars, cropVars, repoVars>>

notRepo == <<aiVars, beVars, feVars, brVars, langVars, cropVars, fsVars>>

-----------------------------------------------------------------------------
(* Bounds of the model *)

MaxInFlight == 2
MaxRequests == 2
MaxTime == 2
MaxSessions == 1

-----------------------------------------------------------------------------
(* AI microservice *)

NoSession == [model |-> "None", id |-> 0, warm |-> FALSE]

IsNone(s) == s.id = 0

\* new_session(name): a fresh session object for the model, not yet run
new_session(name, id) == [model |-> name, id |-> id, warm |-> FALSE]

\* the sessions dictionary: 'u2net' and 'isnet-general-use', loaded and warmed up
LoadedSessions ==
  [m \in {"u2net", "isnet-general-use"} |->
     [model |-> m, id |-> IF m = "u2net" THEN 1 ELSE 2, warm |-> TRUE]]

FirstFreeId == 3

\* model names a request may carry in ?model=
RequestModels == {"u2net", "isnet-general-use", "png"}

\* available_models of switch_model
available_models == {"u2net", "u2netp", "u2net_human_seg", "silueta"}

\* model_name values a /switch-model request may carry
SwitchNames == {"silueta", "isnet-general-use"}

ContentTypes == {"image/png", "text/plain"}

\* what image.read() returns: nothing, bytes PIL cannot open, or an image
ImageData == {"empty", "corrupt", "image"}

OutputFormats == {"png", "jpg"}

InitialStats ==
  [total_processed |-> 0, total_errors |-> 0,
   total_processing_time |-> 0, average_processing_time |-> <<0, 1>>]

\* a / b as Python's true division computes it, kept as the exact quotient
TrueDiv(a, b) == <<a, b>>

\* the quotient q equals a / b
QuotientIs(q, a, b) == q[1] * b = a * q[2]

IdleReq == [pc |-> "idle", model |-> "", start_time |-> 0, fmt |-> "", selected_session |-> NoSession]

NoResp ==
  [endpoint |-> "none", code |-> 0, detail |-> "", model |-> "", available |-> {},
   used |-> NoSession, read |-> FALSE, processed |-> FALSE, processing_time |-> 0,
   media_type |-> "", loaded |-> FALSE, test_ok |-> FALSE]

InitAIVars ==
  /\ phase = "starting"
  /\ rembg_session = NoSession
  /\ rembg_sessions = LoadedSessions
  /\ stats = InitialStats
  /\ now = 0
  /\ nextId = FirstFreeId
  /\ started = 0
  /\ req = [s \in 1..MaxInFlight |-> IdleReq]
  /\ resp = NoResp
  /\ hist = [returned |-> 0, returned_time |-> 0]

\* lifespan: load the u2net session and warm it up; any failure aborts startup
lifespan(newOk, warmOk) ==
  /\ phase = "starting"
  /\ IF ~newOk
       THEN /\ phase' = "failed"
            /\ UNCHANGED <<rembg_session, nextId>>
       ELSE /\ nextId' = nextId + 1
            /\ IF warmOk
                 THEN /\ rembg_session' = [new_session("u2net", nextId) EXCEPT !.warm = TRUE]
                      /\ phase' = "serving"
                 ELSE /\ rembg_session' = new_session("u2net", nextId)
                      /\ phase' = "failed"
  /\ UNCHANGED <<rembg_sessions, stats, now, started, req, resp, hist>>
  /\ UNCHANGED notAI

\* time passes
Tick ==
  /\ now < MaxTime
  /\ now' = now + 1
  /\ UNCHANGED <<phase, rembg_session, rembg_sessions, stats, nextId, started, req, resp, hist>>
  /\ UNCHANGED notAI

\* line 135: the model names a key of the sessions dictionary
ValidModel(model) == model \in DOMAIN rembg_sessions

\* line 144: image.content_type.startswith('image/')
IsImageContentType(ctype) == ctype \in {"image/png", "image/jpeg"}

\* line 179: the session handed to remove() for a request that selected `selected`
SessionForRemoval(selected) == rembg_session

\* lines 184-193: the media type of the output
MediaType(fmt) == IF fmt \in {"jpg", "jpeg"} THEN "image/jpeg" ELSE "image/png"

\* lines 200-205 with the average taken before the new time is added
StatsAfterSuccessStaleAverage(st, processing_time) ==
  LET n == st.total_processed + 1
      t == st.total_processing_time + processing_time
  IN [st EXCEPT !.total_processed = n,
                !.total_processing_time = t,
                !.average_processing_time = TrueDiv(st.total_processing_time, n)]

\* lines 200-205: the statistics after one more image took processing_time
StatsAfterSuccess(st, processing_time) ==
  LET n == st.total_processed + 1
      t == st.total_processing_time + processing_time
  IN [st EXCEPT !.total_processed = n,
                !.total_processing_time = t,
                !.average_processing_time = TrueDiv(t, n)]

\* line 228: the statistics after an unexpected error
StatsAfterError(st) == [st EXCEPT !.total_errors = st.total_errors + 1]

ErrorResp(endpoint, code, detail, model) ==
  [NoResp EXCEPT !.endpoint = endpoint, !.code = code, !.detail = detail, !.model = model]

\* lines 133-148 with the content type checked before the model
BeginOutcomeContentTypeFirst(model, ctype) ==
  IF ~IsImageContentType(ctype) THEN "File must be an image"
  ELSE IF ~ValidModel(model) THEN "Invalid model"
  ELSE "read"

\* lines 133-148: what the checks before `await image.read()` decide
BeginOutcome(model, ctype) ==
  IF ~ValidModel(model) THEN "Invalid model"
  ELSE IF ~IsImageContentType(ctype) THEN "File must be an image"
  ELSE "read"

\* remove_background up to `await image.read()`: model and content-type validation
remove_background_begin(s, model, ctype, fmt) ==
  /\ phase = "serving"
  /\ req[s].pc = "idle"
  /\ started < MaxRequests
  /\ started' = started + 1
  /\ LET outcome == BeginOutcome(model, ctype)
     IN IF outcome = "read"
          THEN /\ req' = [req EXCEPT ![s] =
                            [pc |-> "reading", model |-> model, start_time |-> now, fmt |-> fmt,
                             selected_session |-> rembg_sessions[model]]]
               /\ resp' = resp
          ELSE /\ resp' = [ErrorResp("remove-background", 400, outcome, model)
                             EXCEPT !.available = IF outcome = "Invalid model"
                                                    THEN DOMAIN rembg_sessions ELSE {}]
               /\ req' = req
  /\ UNCHANGED <<phase, rembg_session, rembg_sessions, stats, now, nextId, hist>>
  /\ UNCHANGED notAI

\* remove_background after `await image.read()`: decode, remove, encode, count
remove_background_resume(s, data, removeOk) ==
  /\ phase = "serving"
  /\ req[s].pc = "reading"
  /\ req' = [req EXCEPT ![s] = IdleReq]
  /\ IF data = "empty"
       THEN /\ resp' = [ErrorResp("remove-background", 400, "Empty image file", req[s].model)
                          EXCEPT !.read = TRUE]
            /\ UNCHANGED <<stats, hist>>
       ELSE IF data = "corrupt"
       THEN /\ resp' = [ErrorResp("remove-background", 400, "Invalid image format", req[s].model)
                          EXCEPT !.read = TRUE]
            /\ UNCHANGED <<stats, hist>>
       ELSE IF ~removeOk
       THEN /\ stats' = StatsAfterError(stats)
            /\ resp' = [ErrorResp("remove-background", 500, "Failed to process image", req[s].model)
                          EXCEPT !.read = TRUE, !.used = SessionForRemoval(req[s].selected_session)]
            /\ UNCHANGED hist
       ELSE LET processing_time == now - req[s].start_time
            IN /\ stats' = StatsAfterSuccess(stats, processing_time)
               /\ resp' = [NoResp EXCEPT !.endpoint = "remove-background", !.code = 200,
                                         !.model = req[s].model, !.read = TRUE,
                                         !.processed = TRUE,
                                         !.used = SessionForRemoval(req[s].selected_session),
                                         !.processing_time = processing_time,
                                         !.media_type = MediaType(req[s].fmt)]
               /\ hist' = [returned |-> hist.returned + 1,
                           returned_time |-> hist.returned_time + processing_time]
  /\ UNCHANGED <<phase, rembg_session, rembg_sessions, now, nextId, started>>
  /\ UNCHANGED notAI

\* lines 86-110 with the outcome of the test inference ignored
HealthResponseNoTest(session, testOk) ==
  IF IsNone(session)
    THEN ErrorResp("health", 503, "Service unhealthy", "")
    ELSE [NoResp EXCEPT !.endpoint = "health", !.code = 200, !.detail = "healthy",
                        !.model = "u2net"]

\* lines 86-110: the answer for the session and the outcome of the test inference;
\* the HTTPException raised for a missing session is itself caught by the
\* `except Exception` clause and raised again as 503 "Service unhealthy"
HealthResponse(session, testOk) ==
  IF IsNone(session)
    THEN ErrorResp("health", 503, "Service unhealthy", "")
    ELSE IF testOk
      THEN [NoResp EXCEPT !.endpoint = "health", !.code = 200, !.detail = "healthy",
                          !.model = "u2net"]
      ELSE ErrorResp("health", 503, "Service unhealthy", "")

\* health_check; the response is recorded with what the handler saw
health_check(testOk) ==
  /\ phase = "serving"
  /\ resp' = [HealthResponse(rembg_session, testOk)
                EXCEPT !.loaded = ~IsNone(rembg_session), !.test_ok = testOk]
  /\ UNCHANGED <<phase, rembg_session, rembg_sessions, stats, now, nextId, started, req, hist>>
  /\ UNCHANGED notAI

\* switch_model: replace the global session by a new one and warm it up
switch_model(model_name, newOk, warmOk) ==
  /\ phase = "serving"
  /\ nextId <= FirstFreeId + MaxSessions
  /\ IF model_name \notin available_models
       THEN /\ resp' = ErrorResp("switch-model", 400, "Model not available", model_name)
            /\ UNCHANGED <<rembg_session, nextId>>
       ELSE IF ~newOk
       THEN /\ resp' = ErrorResp("switch-model", 500, "Failed to switch model", model_name)
            /\ UNCHANGED <<rembg_session, nextId>>
       ELSE /\ nextId' = nextId + 1
            /\ IF warmOk
                 THEN /\ rembg_session' = [new_session(model_name, nextId) EXCEPT !.warm = TRUE]
                      /\ resp' = [NoResp EXCEPT !.endpoint = "switch-model", !.code = 200,
                                                !.detail = "success", !.model = model_name]
                 ELSE /\ rembg_session' = new_session(model_name, nextId)
                      /\ resp' = ErrorResp("switch-model", 500, "Failed to switch model", model_name)
  /\ UNCHANGED <<phase, rembg_sessions, stats, now, started, req, hist>>
  /\ UNCHANGED notAI

AINext ==
  \/ \E newOk, warmOk \in BOOLEAN : lifespan(newOk, warmOk)
  \/ Tick
  \/ \E s \in 1..MaxInFlight, model \in RequestModels, ctype \in ContentTypes, fmt \in OutputFormats :
       remove_background_begin(s, model, ctype, fmt)
  \/ \E s \in 1..MaxInFlight, data \in ImageData, removeOk \in BOOLEAN :
       remove_background_resume(s, data, removeOk)
  \/ \E testOk \in BOOLEAN : health_check(testOk)
  \/ \E model_name \in SwitchNames, newOk, warmOk \in BOOLEAN :
       switch_model(model_name, newOk, warmOk)


-----------------------------------------------------------------------------
(* Claims about the AI microservice, checked under SpecAI *)

IsRemovalResponse == resp.endpoint = "remove-background"

C3_ServingSessionIsWarm ==
  phase = "serving" => (~IsNone(rembg_session) /\ rembg_session.warm)

C9_HealthyIffLoadedAndTested ==
  resp.endpoint = "health" =>
    IF resp.loaded /\ resp.test_ok
      THEN resp.code = 200 /\ resp.detail = "healthy"
      ELSE resp.code = 503

C9_Witness ==
  /\ resp.endpoint = "health"
  /\ resp.loaded
  /\ ~resp.test_ok
  /\ resp.code = 503

-----------------------------------------------------------------------------
(* Text and numbers as the backend handles them *)

\* a query parameter or argument that is not given (JavaScript undefined)
Undefined == <<"<undefined>">>

U2NET == <<"u", "2", "n", "e", "t">>

ISNET == <<"i", "s", "n", "e", "t", "-", "g", "e", "n", "e", "r", "a", "l", "-", "u", "s", "e">>

SILUETA == <<"s", "i", "l", "u", "e", "t", "a">>

Digits == <<"0", "1", "2", "3", "4", "5", "6", "7", "8", "9">>

IsDigit(c) == \E d \in 1..10 : Digits[d] = c

DigitValue(c) == (CHOOSE d \in 1..10 : Digits[d] = c) - 1

\* the longest prefix of t made of digits
RECURSIVE TakeDigits(_)
TakeDigits(t) ==
  IF t = <<>> \/ ~IsDigit(Head(t)) THEN <<>> ELSE <<Head(t)>> \o TakeDigits(Tail(t))

\* the value of a sequence of digits, most significant first
RECURSIVE DigitsToInt(_, _)
DigitsToInt(t, acc) ==
  IF t = <<>> THEN acc ELSE DigitsToInt(Tail(t), 10 * acc + DigitValue(Head(t)))

\* a JavaScript number, in hundredths; NaN is a number too
NaN == [nan |-> TRUE, h |-> 0]

Num(h) == [nan |-> FALSE, h |-> h]

\* the fraction digits of a decimal, as hundredths (further digits are dropped)
FractionHundredths(fp) ==
  (IF Len(fp) >= 1 THEN 10 * DigitValue(fp[1]) ELSE 0)
    + (IF Len(fp) >= 2 THEN DigitValue(fp[2]) ELSE 0)

\* parseFloat: the longest decimal prefix of the text, NaN when there is none
ParseFloat(text) ==
  IF text = Undefined THEN NaN
  ELSE LET neg == text # <<>> /\ Head(text) = "-"
           body == IF neg THEN Tail(text) ELSE text
           ip == TakeDigits(body)
           rest == SubSeq(body, Len(ip) + 1, Len(body))
           fp == IF rest # <<>> /\ Head(rest) = "." THEN TakeDigits(Tail(rest)) ELSE <<>>
       IN IF ip = <<>> /\ fp = <<>>
            THEN NaN
            ELSE Num((IF neg THEN -1 ELSE 1) * (100 * DigitsToInt(ip, 0) + FractionHundredths(fp)))

\* the decimal digits of a natural number
RECURSIVE NatToChars(_)
NatToChars(n) ==
  IF n < 10 THEN <<Digits[n + 1]>> ELSE NatToChars(n \div 10) \o <<Digits[(n % 10) + 1]>>

\* Number.prototype.toString: the shortest decimal text of the number
NumberToString(n) ==
  IF n.nan THEN <<"N", "a", "N">>
  ELSE LET a == IF n.h < 0 THEN -n.h ELSE n.h
           sign == IF n.h < 0 THEN <<"-">> ELSE <<>>
           frac == a % 100
           fracChars == IF frac = 0 THEN <<>>
                        ELSE IF frac % 10 = 0 THEN <<".", Digits[(frac \div 10) + 1]>>
                        ELSE <<".", Digits[(frac \div 10) + 1], Digits[(frac % 10) + 1]>>
       IN sign \o NatToChars(a \div 100) \o fracChars

\* x || 1.0 on numbers: NaN and 0 are falsy
OrOne(n) == IF n.nan \/ n.h = 0 THEN Num(100) ELSE n

\* Math.round(a / b) for a >= 0, b > 0
RoundDiv(a, b) == (2 * a + b) \div (2 * b)

\* the text up to the first character that ends a query value in a URL
RECURSIVE UpToDelimiter(_)
UpToDelimiter(t) ==
  IF t = <<>> \/ Head(t) \in {"&", "#"} THEN <<>> ELSE <<Head(t)>> \o UpToDelimiter(Tail(t))

\* the value a server reads from `?name=${text}`: cut at & or #, + read as a space
DecodeQueryValue(text) ==
  IF text = Undefined THEN Undefined
  ELSE LET raw == UpToDelimiter(text)
       IN [i \in 1..Len(raw) |-> IF raw[i] = "+" THEN " " ELSE raw[i]]

\* a string or undefined value is falsy when it is undefined or empty
Falsy(text) == text = Undefined \/ text = <<>>

-----------------------------------------------------------------------------
(* Express backend: upload limits, validation middleware, routes, ImageService *)

MaxBatchFiles == 11

MB == 1024 * 1024

\* multer limits of the routes
MulterFileSizeLimit == 120 * MB

MulterFilesLimit == 3

\* upload.array('images', 10)
BatchMaxCount == 10

NoFile == [fieldname |-> "none", originalname |-> 0, mimetype |-> "", size |-> 0, buffer |-> <<>>]

PNGHead == <<137, 80, 78, 71>>

JPEGHead == <<255, 216, 255, 224>>

BMPHead == <<66, 77, 0, 0>>

ZeroHead == <<0, 0, 0, 0>>

FileHeads == {PNGHead, JPEGHead, BMPHead, ZeroHead}

FileMimeTypes == {"image/png", "image/PNG", "image/jpeg", "image/bmp", "image/svg+xml", "text/plain"}

FileSizes == {0, 99, 100, 50 * MB, 50 * MB + 1, 120 * MB, 120 * MB + 1}

\* an uploaded file: the buffer holds the first bytes of its `size` bytes
UploadedFile(field, name, mimetype, size, head) ==
  [fieldname |-> field, originalname |-> name, mimetype |-> mimetype, size |-> size,
   buffer |-> SubSeq(head, 1, IF size < 4 THEN size ELSE 4)]

\* String.prototype.toLowerCase on the mime types of the model
ToLowerCase(mimetype) == IF mimetype = "image/PNG" THEN "image/png" ELSE mimetype

\* file.mimetype.startsWith('image/')
StartsWithImage(mimetype) ==
  mimetype \in {"image/png", "image/jpeg", "image/jpg", "image/webp", "image/bmp",
                "image/tiff", "image/gif", "image/svg+xml", "image/PNG"}

allowedMimeTypes ==
  {"image/jpeg", "image/jpg", "image/png", "image/webp", "image/bmp", "image/tiff", "image/gif"}

signatures ==
  [m \in allowedMimeTypes |->
     CASE m = "image/jpeg" -> {<<255, 216, 255>>}
       [] m = "image/jpg" -> {<<255, 216, 255>>}
       [] m = "image/png" -> {<<137, 80, 78, 71>>}
       [] m = "image/webp" -> {<<82, 73, 70, 70>>}
       [] m = "image/bmp" -> {<<66, 77>>}
       [] m = "image/tiff" -> {<<73, 73, 42, 0>>, <<77, 77, 0, 42>>}
       [] m = "image/gif" -> {<<71, 73, 70, 56>>}]

\* isValidImageSignature(buffer, mimetype); `length` is buffer.length
isValidImageSignature(buffer, length, mimetype) ==
  IF length < 4 THEN FALSE
  ELSE IF ToLowerCase(mimetype) \notin DOMAIN signatures THEN TRUE
  ELSE \E signature \in signatures[ToLowerCase(mimetype)] :
         \A index \in 1..Len(signature) : buffer[index] = signature[index]

NoError == [status |-> 0, error |-> ""]

\* validateImageFile(file) without its signature check
validateImageFileNoSignature(file) ==
  IF file = NoFile THEN [status |-> 400, error |-> "No image provided"]
  ELSE IF file.size > 50 * MB THEN [status |-> 413, error |-> "File too large"]
  ELSE IF file.size < 100 THEN [status |-> 400, error |-> "File too small"]
  ELSE IF ToLowerCase(file.mimetype) \notin allowedMimeTypes
    THEN [status |-> 400, error |-> "Invalid image format"]
  ELSE NoError

\* validateImageFile(file): the error to answer with, or none
validateImageFile(file) ==
  IF file = NoFile THEN [status |-> 400, error |-> "No image provided"]
  ELSE IF file.size > 50 * MB THEN [status |-> 413, error |-> "File too large"]
  ELSE IF file.size < 100 THEN [status |-> 400, error |-> "File too small"]
  ELSE IF ToLowerCase(file.mimetype) \notin allowedMimeTypes
    THEN [status |-> 400, error |-> "Invalid image format"]
  ELSE IF ~isValidImageSignature(file.buffer, file.size, file.mimetype)
    THEN [status |-> 400, error |-> "Invalid image file"]
  ELSE NoError

\* multer over the files of the request, in order: the first error, or "" when
\* every file is accepted; maxCount is the number of files the field may hold
RECURSIVE MulterScan(_, _, _)
MulterScan(files, index, maxCount) ==
  IF index > Len(files) THEN ""
  ELSE IF index > MulterFilesLimit THEN "LIMIT_FILE_COUNT"
  ELSE IF index > maxCount THEN "LIMIT_UNEXPECTED_FILE"
  ELSE IF ~StartsWithImage(files[index].mimetype) THEN "Only image files are allowed"
  ELSE IF files[index].size > MulterFileSizeLimit THEN "LIMIT_FILE_SIZE"
  ELSE MulterScan(files, index + 1, maxCount)

\* errorHandler(err): the response for an error raised by a middleware
errorHandler(err) ==
  CASE err = "LIMIT_FILE_SIZE" -> [status |-> 413, error |-> "File too large"]
    [] err = "LIMIT_FILE_COUNT" -> [status |-> 413, error |-> "Too many files"]
    [] err = "LIMIT_UNEXPECTED_FILE" -> [status |-> 400, error |-> "Unexpected file field"]
    [] err = "Only image files are allowed" -> [status |-> 400, error |-> "Invalid file type"]
    [] OTHER -> [status |-> 500, error |-> "Internal server error"]


\* the query parameters the routes read
QueryNames == {"model", "brightness", "contrast", "saturation", "sharpness", "auto_enhance", "denoise"}

EnhanceNames == {"brightness", "contrast", "saturation", "sharpness"}

NoQuery == [k \in QueryNames |-> Undefined]

TrueText == <<"t", "r", "u", "e">>

FalseText == <<"f", "a", "l", "s", "e">>

\* Boolean.prototype.toString
BoolToString(b) == IF b THEN TrueText ELSE FalseText

\* req.query as Express parses it from the query string sent
ExpressQuery(url) == [k \in QueryNames |-> DecodeQueryValue(url[k])]

IdleBeReq == [route |-> "none", files |-> <<>>, url |-> NoQuery, query |-> NoQuery]

NoBeRes == [status |-> 0, error |-> "", results |-> <<>>]

NoAiCall == [called |-> FALSE, endpoint |-> "", url |-> NoQuery, count |-> 0]

NoLayers ==
  [caller |-> Undefined, frontend |-> Undefined, route |-> Undefined,
   service |-> Undefined, ai |-> Undefined]

InitialBeStats ==
  [totalProcessed |-> 0, totalErrors |-> 0, averageProcessingTime |-> 0, totalProcessingTime |-> 0]

InitBEVars ==
  /\ bePc = "idle"
  /\ beReq = IdleBeReq
  /\ beRes = NoBeRes
  /\ beStats = InitialBeStats
  /\ aiCall = NoAiCall
  /\ layers = NoLayers

\* frontend removeBackground(file, model = 'u2net'): the model text put after ?model=
FrontendModelQuery(model) == IF model = Undefined THEN U2NET ELSE model

\* route: req.query.model || 'u2net'
RouteModel(query) == IF Falsy(query.model) THEN U2NET ELSE query.model

\* ImageService.removeBackground without the model parameter: no ?model= is sent
ServiceRemoveBackgroundUrlNoModel(model) == NoQuery

\* ImageService.removeBackground({..., model = 'u2net'}): the query string it sends
ServiceRemoveBackgroundUrl(model) ==
  [NoQuery EXCEPT !["model"] = IF model = Undefined THEN U2NET ELSE model]

\* AI service remove_background(model: str = "u2net"): the model it reads
AIModelParam(url) ==
  IF url["model"] = Undefined THEN U2NET ELSE DecodeQueryValue(url["model"])

\* route /enhance: the arguments handed to imageService.enhanceImage
EnhanceArguments(query) ==
  [brightness |-> OrOne(ParseFloat(query["brightness"])),
   contrast |-> OrOne(ParseFloat(query["contrast"])),
   saturation |-> OrOne(ParseFloat(query["saturation"])),
   sharpness |-> OrOne(ParseFloat(query["sharpness"])),
   auto_enhance |-> query["auto_enhance"] = TrueText,
   denoise |-> query["denoise"] = TrueText]

\* ImageService.enhanceImage: the URLSearchParams it sends
ServiceEnhanceUrl(args) ==
  [NoQuery EXCEPT !["brightness"] = NumberToString(args.brightness),
                  !["contrast"] = NumberToString(args.contrast),
                  !["saturation"] = NumberToString(args.saturation),
                  !["sharpness"] = NumberToString(args.sharpness),
                  !["auto_enhance"] = BoolToString(args.auto_enhance),
                  !["denoise"] = BoolToString(args.denoise)]

\* ImageService.updateStats(processingTime, isError)
updateStats(st, processingTime, isError) ==
  IF isError
    THEN [st EXCEPT !.totalErrors = st.totalErrors + 1]
    ELSE [st EXCEPT !.totalProcessed = st.totalProcessed + 1,
                    !.totalProcessingTime = st.totalProcessingTime + processingTime,
                    !.averageProcessingTime =
                       RoundDiv(st.totalProcessingTime + processingTime, st.totalProcessed + 1)]

\* the outcomes of an axios call to the AI service
AIOutcomes == {"ok", "ECONNREFUSED", "response", "ECONNABORTED", "other"}

\* the message of the Error ImageService throws for a failed call
ServiceErrorMessage(outcome) ==
  CASE outcome = "ECONNREFUSED" -> "AI service is not available"
    [] outcome = "response" -> "AI service error"
    [] outcome = "ECONNABORTED" -> "AI service timeout"
    [] OTHER -> "AI service communication error"

\* the catch block of the single-image routes
RouteErrorResponse(route, message) ==
  IF message \in {"AI service is not available", "AI service error", "AI service timeout",
                  "AI service communication error"}
    THEN [NoBeRes EXCEPT !.status = 503, !.error = "AI service temporarily unavailable"]
  ELSE IF route = "remove-background" /\ message \in {"Invalid image format"}
    THEN [NoBeRes EXCEPT !.status = 400, !.error = "Invalid image format"]
  ELSE [NoBeRes EXCEPT !.status = 500, !.error = "Internal server error"]

\* chunkArray(array, chunkSize)
RECURSIVE chunkArray(_, _)
chunkArray(array, chunkSize) ==
  IF array = <<>> THEN <<>>
  ELSE IF Len(array) <= chunkSize THEN <<array>>
  ELSE <<SubSeq(array, 1, chunkSize)>>
         \o chunkArray(SubSeq(array, chunkSize + 1, Len(array)), chunkSize)

\* one chunk of processBatch: a result for each file of the chunk
ChunkResults(chunk, failing) ==
  [i \in 1..Len(chunk) |->
     [filename |-> chunk[i].originalname,
      success |-> chunk[i].originalname \notin failing]]

\* processBatch(files): the chunks of three, one after the other
RECURSIVE FlattenChunks(_, _)
FlattenChunks(chunks, failing) ==
  IF chunks = <<>> THEN <<>>
  ELSE ChunkResults(Head(chunks), failing) \o FlattenChunks(Tail(chunks), failing)

processBatch(files, failing) == FlattenChunks(chunkArray(files, 3), failing)

\* the statistics after the removeBackground calls of a batch
RECURSIVE StatsAfterBatch(_, _, _)
StatsAfterBatch(st, results, processingTime) ==
  IF results = <<>> THEN st
  ELSE StatsAfterBatch(updateStats(st, processingTime, ~Head(results).success),
                       Tail(results), processingTime)

\* ---- the requests of the model

SingleFiles ==
  {UploadedFile("image", 1, m, sz, h) : m \in FileMimeTypes, sz \in FileSizes, h \in FileHeads}

ValidPNG == UploadedFile("image", 1, "image/png", 100, PNGHead)

\* the model argument of a caller of the frontend removeBackground
ModelChoices == {Undefined, U2NET, ISNET, SILUETA}

\* values of the enhancement query parameters
EnhanceTexts ==
  {Undefined, <<"0">>, <<"0", ".", "5">>, <<"1">>, <<"3", ".", "0">>, <<"a", "b", "c">>}

BatchKinds ==
  {[mimetype |-> "image/png", size |-> 100],
   [mimetype |-> "text/plain", size |-> 100],
   [mimetype |-> "image/png", size |-> 120 * MB + 1]}

ProcessingTimes == {1, 2}

\* a browser calls the frontend removeBackground(file, model), which posts to the route
ReceiveRemoveBackgroundFromFrontend(files, model) ==
  /\ bePc = "idle"
  /\ LET url == [NoQuery EXCEPT !["model"] = FrontendModelQuery(model)]
     IN /\ beReq' = [route |-> "remove-background", files |-> files, url |-> url,
                     query |-> ExpressQuery(url)]
        /\ layers' = [NoLayers EXCEPT !.caller = model, !.frontend = url["model"]]
  /\ bePc' = "multer"
  /\ UNCHANGED <<beRes, beStats, aiCall>>
  /\ UNCHANGED notBE

\* another client posts to the route without a model parameter
ReceiveRemoveBackgroundDirect(files) ==
  /\ bePc = "idle"
  /\ beReq' = [route |-> "remove-background", files |-> files, url |-> NoQuery,
               query |-> ExpressQuery(NoQuery)]
  /\ layers' = NoLayers
  /\ bePc' = "multer"
  /\ UNCHANGED <<beRes, beStats, aiCall>>
  /\ UNCHANGED notBE

ReceiveEnhance(files, b, c, sa, sh, flags) ==
  /\ bePc = "idle"
  /\ LET url == [NoQuery EXCEPT !["brightness"] = b, !["contrast"] = c,
                                !["saturation"] = sa, !["sharpness"] = sh,
                                !["auto_enhance"] = flags, !["denoise"] = flags]
     IN beReq' = [route |-> "enhance", files |-> files, url |-> url, query |-> ExpressQuery(url)]
  /\ bePc' = "multer"
  /\ UNCHANGED <<beRes, beStats, aiCall, layers>>
  /\ UNCHANGED notBE

ReceiveBatch(n, kind) ==
  /\ bePc = "idle"
  /\ beReq' = [route |-> "process-batch",
               files |-> [i \in 1..n |-> UploadedFile("images", i, kind.mimetype, kind.size, PNGHead)],
               url |-> NoQuery, query |-> ExpressQuery(NoQuery)]
  /\ bePc' = "multer"
  /\ UNCHANGED <<beRes, beStats, aiCall, layers>>
  /\ UNCHANGED notBE

\* POST /crop and POST /restoration with any single file, or none
ReceiveCrop(files) ==
  /\ bePc = "idle"
  /\ beReq' = [route |-> "crop", files |-> files, url |-> NoQuery,
               query |-> ExpressQuery(NoQuery)]
  /\ bePc' = "multer"
  /\ UNCHANGED <<beRes, beStats, aiCall, layers>>
  /\ UNCHANGED notBE

ReceiveRestoration(files) ==
  /\ bePc = "idle"
  /\ beReq' = [route |-> "restoration", files |-> files, url |-> NoQuery,
               query |-> ExpressQuery(NoQuery)]
  /\ bePc' = "multer"
  /\ UNCHANGED <<beRes, beStats, aiCall, layers>>
  /\ UNCHANGED notBE

\* upload.single('image') or upload.array('images', 10)
Multer ==
  /\ bePc = "multer"
  /\ LET err == MulterScan(beReq.files, 1,
                           IF beReq.route = "process-batch" THEN BatchMaxCount ELSE 1)
     IN IF err # ""
          THEN /\ beRes' = [NoBeRes EXCEPT !.status = errorHandler(err).status,
                                           !.error = errorHandler(err).error]
               /\ bePc' = "done"
          ELSE /\ beRes' = beRes
               /\ bePc' = IF beReq.route = "process-batch" THEN "handler" ELSE "validate"
  /\ UNCHANGED <<beReq, beStats, aiCall, layers>>
  /\ UNCHANGED notBE

\* validateImage(req, res, next)
validateImage ==
  /\ bePc = "validate"
  /\ LET validationError ==
           validateImageFile(IF beReq.files = <<>> THEN NoFile ELSE beReq.files[1])
     IN IF validationError # NoError
          THEN /\ beRes' = [NoBeRes EXCEPT !.status = validationError.status,
                                           !.error = validationError.error]
               /\ bePc' = "done"
          ELSE /\ beRes' = beRes
               /\ bePc' = "handler"
  /\ UNCHANGED <<beReq, beStats, aiCall, layers>>
  /\ UNCHANGED notBE

\* POST /remove-background up to the axios call of imageService.removeBackground
RemoveBackgroundRoute ==
  /\ bePc = "handler"
  /\ beReq.route = "remove-background"
  /\ LET model == RouteModel(beReq.query)
         url == ServiceRemoveBackgroundUrl(model)
     IN /\ aiCall' = [called |-> TRUE, endpoint |-> "remove-background", url |-> url, count |-> 1]
        /\ layers' = [layers EXCEPT !.route = model, !.service = url["model"],
                                    !.ai = AIModelParam(url)]
  /\ bePc' = "awaiting"
  /\ UNCHANGED <<beReq, beRes, beStats>>
  /\ UNCHANGED notBE

\* POST /enhance up to the axios call of imageService.enhanceImage
EnhanceRoute ==
  /\ bePc = "handler"
  /\ beReq.route = "enhance"
  /\ aiCall' = [called |-> TRUE, endpoint |-> "enhance",
                url |-> ServiceEnhanceUrl(EnhanceArguments(beReq.query)), count |-> 1]
  /\ bePc' = "awaiting"
  /\ UNCHANGED <<beReq, beRes, beStats, layers>>
  /\ UNCHANGED notBE

\* POST /crop up to the axios call of imageService.cropImage, which sends the
\* file's buffer; the crop box parameters are not followed
CropRoute ==
  /\ bePc = "handler"
  /\ beReq.route = "crop"
  /\ aiCall' = [called |-> TRUE, endpoint |-> "crop", url |-> NoQuery, count |-> 1]
  /\ bePc' = "awaiting"
  /\ UNCHANGED <<beReq, beRes, beStats, layers>>
  /\ UNCHANGED notBE

\* POST /restoration up to the request of imageService.restoreImage
RestorationRoute ==
  /\ bePc = "handler"
  /\ beReq.route = "restoration"
  /\ aiCall' = [called |-> TRUE, endpoint |-> "restoration", url |-> NoQuery, count |-> 1]
  /\ bePc' = "awaiting"
  /\ UNCHANGED <<beReq, beRes, beStats, layers>>
  /\ UNCHANGED notBE

\* the axios call returns or fails; the service counts it and the route answers
AIServiceAnswers(outcome, processingTime) ==
  /\ bePc = "awaiting"
  /\ beStats' = updateStats(beStats, processingTime, outcome # "ok")
  /\ beRes' = IF outcome = "ok"
                THEN [NoBeRes EXCEPT !.status = 200]
                ELSE RouteErrorResponse(beReq.route, ServiceErrorMessage(outcome))
  /\ bePc' = "done"
  /\ UNCHANGED <<beReq, aiCall, layers>>
  /\ UNCHANGED notBE

\* POST /process-batch: the handler with imageService.processBatch
ProcessBatchRoute(failing, processingTime) ==
  /\ bePc = "handler"
  /\ beReq.route = "process-batch"
  /\ IF Len(beReq.files) = 0
       THEN /\ beRes' = [NoBeRes EXCEPT !.status = 400, !.error = "No images provided"]
            /\ UNCHANGED <<beStats, aiCall>>
       ELSE LET results == processBatch(beReq.files, failing)
            IN /\ beRes' = [NoBeRes EXCEPT !.status = 200, !.results = results]
               /\ beStats' = StatsAfterBatch(beStats, results, processingTime)
               /\ aiCall' = [called |-> TRUE, endpoint |-> "remove-background",
                             url |-> ServiceRemoveBackgroundUrl(Undefined),
                             count |-> Len(beReq.files)]
  /\ bePc' = "done"
  /\ UNCHANGED <<beReq, layers>>
  /\ UNCHANGED notBE

BENext ==
  \/ \E f \in SingleFiles, m \in ModelChoices : ReceiveRemoveBackgroundFromFrontend(<<f>>, m)
  \/ \E files \in {<<>>, <<ValidPNG>>} : ReceiveRemoveBackgroundDirect(files)
  \/ \E b, c, sa, sh \in EnhanceTexts, flags \in {Undefined, TrueText} :
       ReceiveEnhance(<<ValidPNG>>, b, c, sa, sh, flags)
  \/ \E f \in SingleFiles :
       ReceiveEnhance(<<f>>, Undefined, Undefined, Undefined, Undefined, Undefined)
  \/ \E n \in 0..MaxBatchFiles, kind \in BatchKinds : ReceiveBatch(n, kind)
  \/ \E files \in {<<f>> : f \in SingleFiles} \cup {<<>>} : ReceiveCrop(files)
  \/ \E files \in {<<f>> : f \in SingleFiles} \cup {<<>>} : ReceiveRestoration(files)
  \/ Multer
  \/ validateImage
  \/ RemoveBackgroundRoute
  \/ EnhanceRoute
  \/ CropRoute
  \/ RestorationRoute
  \/ \E outcome \in AIOutcomes, t \in ProcessingTimes : AIServiceAnswers(outcome, t)
  \/ \E failing \in SUBSET (1..Len(beReq.files)), t \in ProcessingTimes :
       ProcessBatchRoute(failing, t)

-----------------------------------------------------------------------------
(* Claims about the backend, checked under SpecBackend *)

\* the file has an allowed type and its first bytes are a signature of that type
AllowedTypeAndSignature(f) ==
  /\ ToLowerCase(f.mimetype) \in allowedMimeTypes
  /\ Len(f.buffer) = 4
  /\ \E signature \in signatures[ToLowerCase(f.mimetype)] :
       SubSeq(f.buffer, 1, Len(signature)) = signature

\* C5: on POST /api/images/remove-background every file with an allowed type,
\* a matching signature and a size of at most 120 MB passes multer and
\* validateImage and reaches the AI-service call; only larger files are
\* rejected as too large.
C5_FilesUpTo120MBReachAIService ==
  (bePc = "done" /\ beReq.route = "remove-background" /\ Len(beReq.files) = 1) =>
    LET f == beReq.files[1]
    IN /\ (AllowedTypeAndSignature(f) /\ f.size <= 120 * MB) => aiCall.called
       /\ beRes.error = "File too large" => f.size > 120 * MB

\* C6: POST /api/images/process-batch answers a request with 1 to 10 image
\* files with one result entry per file, and a request without files with 400.
C6_BatchOfOneToTenFilesProcessed ==
  (bePc = "done" /\ beReq.route = "process-batch") =>
    LET n == Len(beReq.files)
    IN /\ n = 0 => beRes.status = 400
       /\ (/\ n \in 1..10
           /\ \A i \in 1..n : /\ StartsWithImage(beReq.files[i].mimetype)
                              /\ beReq.files[i].size <= MulterFileSizeLimit)
            => (beRes.status = 200 /\ Len(beRes.results) = n)

\* the value a decimal text denotes lies in the documented range 0.0 - 3.0
InDocumentedRange(text) ==
  /\ ~ParseFloat(text).nan
  /\ ParseFloat(text).h >= 0
  /\ ParseFloat(text).h <= 300

\* C7: POST /api/images/enhance forwards every brightness, contrast,
\* saturation and sharpness value of the range 0.0 - 3.0 to the AI service
\* /enhance request as given, and 1.0 for a parameter that is absent.
C7_EnhanceValuesForwardedAsGiven ==
  (aiCall.called /\ aiCall.endpoint = "enhance") =>
    \A name \in EnhanceNames :
      LET given == beReq.url[name]
          forwarded == ParseFloat(DecodeQueryValue(aiCall.url[name]))
      IN IF given = Undefined
           THEN forwarded = Num(100)
           ELSE InDocumentedRange(given) => forwarded = ParseFloat(given)

\* C8: the model chosen by the caller of the frontend removeBackground is the
\* model at every layer down to the AI service; when none is given, also by a
\* client that posts to the route directly, every layer has 'u2net'.
C8_ModelReachesAIServiceUnchanged ==
  (aiCall.called /\ beReq.route = "remove-background") =>
    LET chosen == IF layers.caller = Undefined THEN U2NET ELSE layers.caller
    IN /\ layers.frontend \in {chosen, Undefined}
       /\ layers.route = chosen
       /\ layers.service = chosen
       /\ layers.ai = chosen

C8_Witness ==
  /\ aiCall.called
  /\ beReq.route = "remove-background"
  /\ layers.caller = ISNET
  /\ layers.frontend = ISNET
  /\ layers.ai = ISNET
  /\ bePc = "done"
  /\ beRes.status = 200

\* the routes that take one file through validateImage
ValidatedRoutes == {"remove-background", "enhance", "crop", "restoration"}

-----------------------------------------------------------------------------
(* Angular ImageService: the progress published on uploadProgress$ *)

\* progress events the browser reports for one transfer
MaxProgressEvents == 2

\* new BehaviorSubject<UploadProgress>({ progress: 0, status: 'uploading' });
\* progress is kept in tenths of a percent (progress * 0.3 is not whole)
InitialProgress == [progress |-> 0, status |-> "uploading", message |-> "<undefined>"]

NoFeReq == [op |-> "none", option |-> FALSE, uploadTotal |-> 0, downloadTotal |-> 0]

NoResult == [success |-> FALSE, returned |-> FALSE]

InitFEVars ==
  /\ fePc = "idle"
  /\ feReq = NoFeReq
  /\ feLoaded = 0
  /\ uploadProgress = InitialProgress
  /\ published = <<>>
  /\ feResult = NoResult

\* an HttpEvent; total = 0 stands for a total the browser cannot compute
\* (event.total undefined)
HttpEvent(type, loaded, total) == [type |-> type, loaded |-> loaded, total |-> total]

\* the message of the 'processing' status; option is
\* model === 'isnet-general-use', options.autoEnhance or options.autoDetect
ProcessingMessage(op, option) ==
  CASE op = "removeBackground" ->
         IF option THEN "Processing with Premium Quality (Alpha Matting)..."
                   ELSE "Processing with AI..."
    [] op = "enhanceImage" ->
         IF option THEN "Applying auto-enhancement..." ELSE "Applying enhancements..."
    [] OTHER ->
         IF option THEN "AI detecting important areas..." ELSE "Cropping image..."

DownloadMessage(op) ==
  CASE op = "removeBackground" -> "Receiving processed image..."
    [] op = "enhanceImage" -> "Receiving enhanced image..."
    [] OTHER -> "Receiving cropped image..."

CompleteMessage(op) ==
  CASE op = "removeBackground" -> "Processing complete!"
    [] op = "enhanceImage" -> "Enhancement complete!"
    [] OTHER -> "Crop complete!"

\* what the map callback publishes for an event: <<value>> or <<>> (nothing)
mapEvent(op, option, event) ==
  CASE event.type = "UploadProgress" ->
         IF event.total # 0
           THEN << [progress |-> 3 * RoundDiv(100 * event.loaded, event.total),
                    status |-> "uploading", message |-> "Uploading image..."] >>
           ELSE << >>
    [] event.type = "Sent" ->
         << [progress |-> 350, status |-> "processing",
             message |-> ProcessingMessage(op, option)] >>
    [] event.type = "DownloadProgress" ->
         IF event.total # 0
           THEN << [progress |-> 10 * (35 + RoundDiv(65 * event.loaded, event.total)),
                    status |-> "downloading", message |-> DownloadMessage(op)] >>
           ELSE << >>
    [] event.type = "Response" ->
         << [progress |-> 1000, status |-> "complete", message |-> CompleteMessage(op)] >>
    [] OTHER -> << >>

\* the value map returns for an event
mapResult(event) == [success |-> event.type = "Response", returned |-> TRUE]

\* this.uploadProgressSubject.next(...) for what the callback publishes
Publish(values) ==
  /\ uploadProgress' = IF values = << >> THEN uploadProgress ELSE values[1]
  /\ published' = IF values = << >> THEN published ELSE Append(published, values[1].status)

\* the map callback runs on one event of the request
Handle(event) ==
  /\ Publish(mapEvent(feReq.op, feReq.option, event))
  /\ feResult' = mapResult(event)

NotInFlight == fePc \in {"idle", "done", "failed"}

\* http.post(..., { reportProgress: true, observe: 'events' }) is subscribed;
\* whether the browser can compute the totals is its choice
StartCall(op, option, uploadTotal, downloadTotal) ==
  /\ NotInFlight
  /\ feReq' = [op |-> op, option |-> option,
               uploadTotal |-> uploadTotal, downloadTotal |-> downloadTotal]
  /\ fePc' = "subscribed"
  /\ feLoaded' = 0
  /\ published' = << >>
  /\ feResult' = NoResult
  /\ UNCHANGED uploadProgress

Totals == {0, MaxProgressEvents}

removeBackground(premium) ==
  /\ \E ut \in Totals, dt \in Totals : StartCall("removeBackground", premium, ut, dt)
  /\ UNCHANGED notFE

enhanceImage(autoEnhance) ==
  /\ \E ut \in Totals, dt \in Totals : StartCall("enhanceImage", autoEnhance, ut, dt)
  /\ UNCHANGED notFE

cropImage(detect) ==
  /\ \E ut \in Totals, dt \in Totals : StartCall("cropImage", detect, ut, dt)
  /\ UNCHANGED notFE

\* The events of one request arrive in the order of Angular's XHR backend:
\* Sent as soon as the request is handed to the browser, then the upload's
\* progress events, the response headers, the download's progress events
\* and the response.
SentEvent ==
  /\ fePc = "subscribed"
  /\ Handle(HttpEvent("Sent", 0, 0))
  /\ fePc' = "uploading"
  /\ UNCHANGED <<feReq, feLoaded>>
  /\ UNCHANGED notFE

UploadProgressEvent ==
  /\ fePc = "uploading"
  /\ feLoaded < MaxProgressEvents
  /\ feLoaded' = feLoaded + 1
  /\ Handle(HttpEvent("UploadProgress", feLoaded + 1, feReq.uploadTotal))
  /\ UNCHANGED <<fePc, feReq>>
  /\ UNCHANGED notFE

ResponseHeaderEvent ==
  /\ fePc = "uploading"
  /\ Handle(HttpEvent("ResponseHeader", 0, 0))
  /\ fePc' = "downloading"
  /\ feLoaded' = 0
  /\ UNCHANGED feReq
  /\ UNCHANGED notFE

DownloadProgressEvent ==
  /\ fePc = "downloading"
  /\ feLoaded < MaxProgressEvents
  /\ feLoaded' = feLoaded + 1
  /\ Handle(HttpEvent("DownloadProgress", feLoaded + 1, feReq.downloadTotal))
  /\ UNCHANGED <<fePc, feReq>>
  /\ UNCHANGED notFE

ResponseEvent ==
  /\ fePc = "downloading"
  /\ Handle(HttpEvent("Response", 0, 0))
  /\ fePc' = "done"
  /\ UNCHANGED <<feReq, feLoaded>>
  /\ UNCHANGED notFE

\* the request fails or times out: catchError publishes 'error'
catchError ==
  /\ fePc \in {"uploading", "downloading"}
  /\ Publish(<< [progress |-> 0, status |-> "error", message |-> "error message"] >>)
  /\ feResult' = [success |-> FALSE, returned |-> FALSE]
  /\ fePc' = "failed"
  /\ UNCHANGED <<feReq, feLoaded>>
  /\ UNCHANGED notFE

\* the components call resetProgress() before they start a call
resetProgress ==
  /\ NotInFlight
  /\ uploadProgress' = [progress |-> 0, status |-> "uploading", message |-> "<undefined>"]
  /\ UNCHANGED <<fePc, feReq, feLoaded, published, feResult>>
  /\ UNCHANGED notFE

FENext ==
  \/ \E premium \in BOOLEAN : removeBackground(premium)
  \/ \E autoEnhance \in BOOLEAN : enhanceImage(autoEnhance)
  \/ \E detect \in BOOLEAN : cropImage(detect)
  \/ SentEvent
  \/ UploadProgressEvent
  \/ ResponseHeaderEvent
  \/ DownloadProgressEvent
  \/ ResponseEvent
  \/ catchError
  \/ resetProgress

-----------------------------------------------------------------------------
(* Claims about the Angular ImageService, checked under SpecFrontend *)

\* the phase a status belongs to
StatusRank(status) ==
  CASE status = "uploading" -> 1
    [] status = "processing" -> 2
    [] status = "downloading" -> 3
    [] status = "complete" -> 4
    [] OTHER -> 0

InPhaseOrder(statuses) ==
  \A i \in 1..Len(statuses), j \in 1..Len(statuses) :
    i < j => StatusRank(statuses[i]) <= StatusRank(statuses[j])

\* C10: in a removeBackground, enhanceImage or cropImage call that ended with
\* a response, the statuses published on uploadProgress$ are in the order
\* uploading, processing, downloading, complete: no status of an earlier
\* phase follows a status of a later phase.
C10_StatusesInPhaseOrder ==
  fePc = "done" => InPhaseOrder(published)

-----------------------------------------------------------------------------
(* Background Remover page and its ImageProcessorComponent *)

MaxUploads == 3
MaxRemovals == 2
MaxPending == 2

Null == << >>

NoProcessor ==
  [id |-> 0, image |-> Null, processedImage |-> Null, processedImageUrl |-> Null,
   isProcessing |-> FALSE]

NoSnapshot ==
  [taken |-> FALSE, uploadedImage |-> Null, isProcessing |-> FALSE,
   processedImage |-> Null, processedImageUrl |-> Null, late |-> FALSE]

InitBRVars ==
  /\ uploadedImage = Null
  /\ isProcessing = FALSE
  /\ imageProcessor = NoProcessor
  /\ pending = {}
  /\ removals = 0
  /\ uploads = 0
  /\ procIds = 0
  /\ afterRemoved = NoSnapshot

\* @ViewChild(ImageProcessorComponent): undefined while no processor is shown
HasProcessor(proc) == proc.id # 0

\* the page's template shows the processing grid only after an upload
ProcessorHosted(image) == image # Null

\* change detection after a handler of the page: the processor is created,
\* destroyed or handed the current image
Render(image, proc, freshId) ==
  IF ~ProcessorHosted(image) THEN NoProcessor
  ELSE IF HasProcessor(proc) THEN [proc EXCEPT !.image = image]
  ELSE [NoProcessor EXCEPT !.id = freshId, !.image = image]

\* the processor as onImageUploaded and onImageRemoved leave it
ResetResults(proc) ==
  IF HasProcessor(proc)
    THEN [proc EXCEPT !.processedImage = Null, !.processedImageUrl = Null]
    ELSE proc

\* the page's fields as onImageRemoved leaves them
PageAfterRemovedKeepProcessing(processing) == [uploadedImage |-> Null, isProcessing |-> processing]

PageAfterRemoved(processing) == [uploadedImage |-> Null, isProcessing |-> FALSE]

\* URL.createObjectURL(blob)
createObjectURL(blob) == <<"blob:">> \o blob

onImageUploaded ==
  /\ uploads < MaxUploads
  /\ uploads' = uploads + 1
  /\ uploadedImage' = <<uploads + 1>>
  /\ imageProcessor' = Render(<<uploads + 1>>, ResetResults(imageProcessor), procIds + 1)
  /\ procIds' = IF HasProcessor(imageProcessor) THEN procIds ELSE procIds + 1
  /\ UNCHANGED <<isProcessing, pending, removals, afterRemoved>>
  /\ UNCHANGED notBR

\* the uploader's remove button, shown while a file is selected
onImageRemoved ==
  /\ uploadedImage # Null
  /\ removals < MaxRemovals
  /\ removals' = removals + 1
  /\ LET page == PageAfterRemoved(isProcessing)
         proc == ResetResults(imageProcessor)
     IN /\ uploadedImage' = page.uploadedImage
        /\ isProcessing' = page.isProcessing
        /\ afterRemoved' = [late |-> afterRemoved.late, taken |-> TRUE,
                            uploadedImage |-> page.uploadedImage,
                            isProcessing |-> page.isProcessing,
                            processedImage |-> proc.processedImage,
                            processedImageUrl |-> proc.processedImageUrl]
        /\ imageProcessor' = Render(page.uploadedImage, proc, procIds + 1)
  /\ UNCHANGED <<pending, uploads, procIds>>
  /\ UNCHANGED notBR

\* onRemoveBackground -> ImageProcessorComponent.processImage; the button is
\* disabled without an image and while the page is processing
processImage ==
  /\ HasProcessor(imageProcessor)
  /\ imageProcessor.image # Null
  /\ ~isProcessing
  /\ Cardinality(pending) < MaxPending
  /\ imageProcessor' = [imageProcessor EXCEPT !.isProcessing = TRUE]
  /\ isProcessing' = TRUE
  /\ pending' = pending \cup {[owner |-> imageProcessor.id,
                               image |-> imageProcessor.image,
                               epoch |-> removals]}
  /\ UNCHANGED <<uploadedImage, removals, uploads, procIds, afterRemoved>>
  /\ UNCHANGED notBR

\* next (with the response) and complete of the removeBackground subscription,
\* which outlives the component; a destroyed component's outputs reach nobody
ResponseArrives ==
  \E r \in pending :
    /\ pending' = pending \ {r}
    /\ IF r.owner = imageProcessor.id
         THEN /\ imageProcessor' =
                   [imageProcessor EXCEPT
                      !.processedImage = r.image \o <<r.epoch>>,
                      !.processedImageUrl = createObjectURL(r.image \o <<r.epoch>>),
                      !.isProcessing = FALSE]
              /\ isProcessing' = FALSE
         ELSE UNCHANGED <<imageProcessor, isProcessing>>
    /\ afterRemoved' = [afterRemoved EXCEPT !.late = @ \/ r.epoch < removals]
    /\ UNCHANGED <<uploadedImage, removals, uploads, procIds>>
    /\ UNCHANGED notBR

\* error of the removeBackground subscription
RequestFails ==
  \E r \in pending :
    /\ pending' = pending \ {r}
    /\ isProcessing' = IF r.owner = imageProcessor.id THEN FALSE ELSE isProcessing
    /\ UNCHANGED <<uploadedImage, imageProcessor, removals, uploads, procIds, afterRemoved>>
    /\ UNCHANGED notBR

BRNext ==
  \/ onImageUploaded
  \/ onImageRemoved
  \/ processImage
  \/ ResponseArrives
  \/ RequestFails

-----------------------------------------------------------------------------
(* Claims about the Background Remover page, checked under SpecRemover *)

\* a processed result is on the page
ResultVisible == HasProcessor(imageProcessor) /\ imageProcessor.processedImageUrl # Null

\* the removal count of the request that produced the visible result
VisibleEpoch == imageProcessor.processedImage[Len(imageProcessor.processedImage)]

\* C11: right after onImageRemoved uploadedImage is null, isProcessing is
\* false and the processor's processedImage and processedImageUrl are null;
\* from then on a visible result comes only from a request made after the
\* removal, also when a request was in flight at the removal.
C11_RemovalClearsResultsForGood ==
  /\ afterRemoved.taken =>
       /\ afterRemoved.uploadedImage = Null
       /\ afterRemoved.isProcessing = FALSE
       /\ afterRemoved.processedImage = Null
       /\ afterRemoved.processedImageUrl = Null
  /\ ResultVisible => VisibleEpoch = removals
  /\ uploadedImage = Null => ~ResultVisible

\* an image was removed with its request in flight, the response came, and a
\* later image has been uploaded and processed
C11_Witness ==
  /\ removals = 1
  /\ afterRemoved.taken
  /\ afterRemoved.late
  /\ pending = {}
  /\ ResultVisible
  /\ imageProcessor.id = 2
  /\ imageProcessor.processedImage = <<2, 1>>

-----------------------------------------------------------------------------
(* LanguageService and the TranslateService it drives *)

supportedLangs == {"en", "pt"}

\* undefined (a language never set) and null (no item under the key)
NoLang == "<undefined>"

NoItem == "<null>"

\* what localStorage may hold under 'ai-image-language' when the service starts
StoredValues == {NoItem, "", "en", "pt", "fr"}

\* the languages a caller may ask for
RequestedLangs == {"en", "pt", "fr", ""}

\* a || b on strings: '' and undefined/null are falsy
LangOr(a, b) == IF a \in {"", NoLang, NoItem} THEN b ELSE a

\* a TranslateService before any language is set: translations are fetched
\* over HTTP (TranslateHttpLoader), none is loaded yet
NewTranslateService ==
  [currentLang |-> NoLang, defaultLang |-> NoLang, translations |-> {},
   requests |-> {}, subs |-> {}]

\* calls of setLanguage the model follows
MaxLanguageCalls == 3

InitLangVars ==
  /\ langPc = "new"
  /\ translate = NewTranslateService
  /\ localStorageItem \in StoredValues
  /\ langRequested = NoLang
  /\ langCalls = 0

\* the service not yet created, in a browser that stored nothing
IdleLangVars ==
  /\ langPc = "new"
  /\ translate = NewTranslateService
  /\ localStorageItem = NoItem
  /\ langRequested = NoLang
  /\ langCalls = 0

\* translate.setDefaultLang(lang): immediate when the translations are loaded;
\* otherwise they are requested and the default changes when they arrive
\* (immediately only if no default was set before)
setDefaultLang(t, lang) ==
  IF lang = t.defaultLang THEN t
  ELSE IF lang \in t.translations THEN [t EXCEPT !.defaultLang = lang]
  ELSE [t EXCEPT !.requests = @ \cup {lang},
                 !.defaultLang = IF @ = NoLang THEN lang ELSE @,
                 !.subs = @ \cup {<<lang, "default">>}]

\* translate.use(lang): likewise for the current language
use(t, lang) ==
  IF lang = t.currentLang THEN t
  ELSE IF lang \in t.translations THEN [t EXCEPT !.currentLang = lang]
  ELSE [t EXCEPT !.requests = @ \cup {lang},
                 !.currentLang = IF @ = NoLang THEN lang ELSE @,
                 !.subs = @ \cup {<<lang, "use">>}]

\* get currentLang()
currentLang == LangOr(translate.currentLang, LangOr(translate.defaultLang, "en"))

\* getStoredLanguage(), localStorage being defined in the browser
getStoredLanguage == LangOr(localStorageItem, "en")

\* the language setLanguage settles on
EffectiveLang(lang) == IF lang \notin supportedLangs THEN "en" ELSE lang

\* the body of setLanguage
DoSetLanguage(lang) ==
  LET l == EffectiveLang(lang) IN
    /\ translate' = use(setDefaultLang(translate, l), l)
    /\ localStorageItem' = l

LanguageServiceConstructor ==
  /\ langPc = "new"
  /\ LET saved == getStoredLanguage
         initial == IF saved \in supportedLangs THEN saved ELSE "en"
     IN DoSetLanguage(initial)
  /\ langPc' = "ready"
  /\ UNCHANGED <<langRequested, langCalls>>
  /\ UNCHANGED notLang

setLanguage(lang) ==
  /\ langPc = "ready"
  /\ langCalls < MaxLanguageCalls
  /\ DoSetLanguage(lang)
  /\ langRequested' = lang
  /\ langCalls' = langCalls + 1
  /\ UNCHANGED langPc
  /\ UNCHANGED notLang

\* the translations of a language arrive: the waiting setDefaultLang and use
\* calls take effect
TranslationsLoaded(lang) ==
  /\ lang \in translate.requests
  /\ translate' =
       [translate EXCEPT
          !.requests = @ \ {lang},
          !.translations = @ \cup {lang},
          !.subs = {s \in @ : s[1] # lang},
          !.defaultLang = IF <<lang, "default">> \in translate.subs THEN lang ELSE @,
          !.currentLang = IF <<lang, "use">> \in translate.subs THEN lang ELSE @]
  /\ UNCHANGED <<langPc, localStorageItem, langRequested, langCalls>>
  /\ UNCHANGED notLang

\* the translations of a language cannot be fetched
TranslationsFail(lang) ==
  /\ lang \in translate.requests
  /\ translate' = [translate EXCEPT !.requests = @ \ {lang},
                                    !.subs = {s \in @ : s[1] # lang}]
  /\ UNCHANGED <<langPc, localStorageItem, langRequested, langCalls>>
  /\ UNCHANGED notLang

LangNext ==
  \/ LanguageServiceConstructor
  \/ \E lang \in RequestedLangs : setLanguage(lang)
  \/ \E lang \in supportedLangs : TranslationsLoaded(lang)
  \/ \E lang \in supportedLangs : TranslationsFail(lang)

-----------------------------------------------------------------------------
(* Claims about the LanguageService, checked under SpecLanguage *)

\* C12: once constructed, and after every setLanguage call, the active
\* language is 'en' or 'pt' and equals the item stored under
\* 'ai-image-language'; an unsupported or missing language gives 'en'.
C12_ActiveLanguageEqualsStored ==
  langPc = "ready" =>
    /\ currentLang \in supportedLangs
    /\ currentLang = localStorageItem

-----------------------------------------------------------------------------
(* CropControlsComponent: aspect-ratio maintenance *)

\* aspectRatios: value -> ratio as <<numerator, denominator>>; custom has none
NoRatio == <<0, 1>>

aspectRatios ==
  [custom |-> NoRatio, r16x9 |-> <<16, 9>>, r4x3 |-> <<4, 3>>, r1x1 |-> <<1, 1>>,
   r9x16 |-> <<9, 16>>, r3x4 |-> <<3, 4>>]

RatioValues == DOMAIN aspectRatios

\* selected && selected.ratio
HasRatio(value) == aspectRatios[value] # NoRatio

\* the values the sliders are moved to (100-2000px)
SliderValues == {100, 104, 150, 600, 800, 2000}

DefaultWidth == 800

DefaultHeight == 600

NoEmit == [width |-> 0, height |-> 0, aspectRatio |-> "none", autoDetect |-> FALSE]

InitCropVars ==
  /\ width = DefaultWidth
  /\ height = DefaultHeight
  /\ aspectRatio = "custom"
  /\ autoDetect = FALSE
  /\ emitted = NoEmit
  /\ lastChange = "none"
  /\ asSet = <<DefaultWidth, DefaultHeight>>

\* Math.floor(width / ratio)
HeightForFloor(w, ratio) == (w * ratio[2]) \div ratio[1]

\* Math.round(this.width / selected.ratio)
HeightFor(w, ratio) == RoundDiv(w * ratio[2], ratio[1])

\* Math.round(this.height * selected.ratio)
WidthFor(h, ratio) == RoundDiv(h * ratio[1], ratio[2])

\* emitChanges() with the fields as given
emitChanges(w, h, value, auto) ==
  emitted' = [width |-> w, height |-> h, aspectRatio |-> value, autoDetect |-> auto]

\* a preset is chosen in the select, then onAspectRatioChange runs
onAspectRatioChange(value) ==
  /\ aspectRatio' = value
  /\ height' = IF HasRatio(value) THEN HeightFor(width, aspectRatios[value]) ELSE height
  /\ emitChanges(width, height', value, autoDetect)
  /\ lastChange' = "aspectRatio"
  /\ asSet' = <<width, height>>
  /\ UNCHANGED <<width, autoDetect>>
  /\ UNCHANGED notCrop

\* the width slider is moved, then onWidthChange runs
onWidthChange(w) ==
  /\ width' = w
  /\ height' = IF HasRatio(aspectRatio) THEN HeightFor(w, aspectRatios[aspectRatio])
                                        ELSE height
  /\ emitChanges(w, height', aspectRatio, autoDetect)
  /\ lastChange' = "width"
  /\ asSet' = <<w, height>>
  /\ UNCHANGED <<aspectRatio, autoDetect>>
  /\ UNCHANGED notCrop

\* the height slider is moved, then onHeightChange runs
onHeightChange(h) ==
  /\ height' = h
  /\ width' = IF HasRatio(aspectRatio) THEN WidthFor(h, aspectRatios[aspectRatio])
                                       ELSE width
  /\ emitChanges(width', h, aspectRatio, autoDetect)
  /\ lastChange' = "height"
  /\ asSet' = <<width, h>>
  /\ UNCHANGED <<aspectRatio, autoDetect>>
  /\ UNCHANGED notCrop

\* the toggle is switched, then onAutoDetectToggle runs
onAutoDetectToggle ==
  /\ autoDetect' = ~autoDetect
  /\ emitChanges(width, height, aspectRatio, autoDetect')
  /\ lastChange' = "autoDetect"
  /\ asSet' = <<width, height>>
  /\ UNCHANGED <<width, height, aspectRatio>>
  /\ UNCHANGED notCrop

resetAll ==
  /\ width' = DefaultWidth
  /\ height' = DefaultHeight
  /\ aspectRatio' = "custom"
  /\ autoDetect' = FALSE
  /\ emitChanges(DefaultWidth, DefaultHeight, "custom", FALSE)
  /\ lastChange' = "reset"
  /\ asSet' = <<DefaultWidth, DefaultHeight>>
  /\ UNCHANGED notCrop

CropNext ==
  \/ \E value \in RatioValues : onAspectRatioChange(value)
  \/ \E w \in SliderValues : onWidthChange(w)
  \/ \E h \in SliderValues : onHeightChange(h)
  \/ onAutoDetectToggle
  \/ resetAll

-----------------------------------------------------------------------------
(* Claims about the CropControlsComponent, checked under SpecCrop *)

\* C13: with a preset ratio selected, the options emitted after an
\* aspect-ratio, width or height change have height = round(width / ratio)
\* or width = round(height * ratio); with 'custom' selected, width and height
\* are emitted exactly as set.
C13_EmittedOptionsKeepRatio ==
  lastChange \in {"aspectRatio", "width", "height"} =>
    IF HasRatio(emitted.aspectRatio)
      THEN LET ratio == aspectRatios[emitted.aspectRatio] IN
             \/ emitted.height = RoundDiv(emitted.width * ratio[2], ratio[1])
             \/ emitted.width = RoundDiv(emitted.height * ratio[1], ratio[2])
      ELSE /\ emitted.width = asSet[1]
           /\ emitted.height = asSet[2]

\* a width was set under 16:9 where width / ratio has a fraction of one half
\* (104 * 9 / 16 = 58.5), and the emitted height is the rounded value
C13_Witness ==
  /\ lastChange = "width"
  /\ emitted.aspectRatio = "r16x9"
  /\ emitted.width = 104
  /\ emitted.height = 59

-----------------------------------------------------------------------------
(* POST /api/images/face-swap and the editor's applyFaceSwap *)

\* req.query.mode absent
NoMode == "<undefined>"

FaceSwapModes == {NoMode, "", "face-swap", "style-transfer", "cartoon"}

TinyPNG == UploadedFile("image", 1, "image/png", 99, PNGHead)

\* the files a client may put in one field of the form
FieldChoices == {<< >>, <<ValidPNG>>, <<TinyPNG>>}

FaceFieldChoices == FieldChoices \cup {<<ValidPNG, ValidPNG>>}

NoFsReq == [origin |-> "none", mode |-> NoMode, image |-> << >>, face_image |-> << >>,
            style_image |-> << >>]

NoFsRes == [status |-> 0, error |-> ""]

NewEditor == [currentFile |-> FALSE, faceSwapMode |-> "face-swap",
              faceSourceFile |-> FALSE, styleReferenceFile |-> FALSE,
              isProcessing |-> FALSE, warning |-> ""]

InitFSVars ==
  /\ fsPc = "idle"
  /\ fsReq = NoFsReq
  /\ fsRes = NoFsRes
  /\ fsAiCalls = 0
  /\ editor = NewEditor

\* ---- the editor

\* a file is loaded into the editor
EditorLoadsFile ==
  /\ ~editor.currentFile
  /\ editor' = [editor EXCEPT !.currentFile = TRUE]
  /\ UNCHANGED <<fsPc, fsReq, fsRes, fsAiCalls>>
  /\ UNCHANGED notFS

\* the mode is chosen in the editor's face-swap panel
EditorSelectsMode(mode) ==
  /\ editor.faceSwapMode # mode
  /\ editor' = [editor EXCEPT !.faceSwapMode = mode]
  /\ UNCHANGED <<fsPc, fsReq, fsRes, fsAiCalls>>
  /\ UNCHANGED notFS

onFaceSourceSelected ==
  /\ ~editor.faceSourceFile
  /\ editor' = [editor EXCEPT !.faceSourceFile = TRUE]
  /\ UNCHANGED <<fsPc, fsReq, fsRes, fsAiCalls>>
  /\ UNCHANGED notFS

onStyleReferenceSelected ==
  /\ ~editor.styleReferenceFile
  /\ editor' = [editor EXCEPT !.styleReferenceFile = TRUE]
  /\ UNCHANGED <<fsPc, fsReq, fsRes, fsAiCalls>>
  /\ UNCHANGED notFS

\* the warning applyFaceSwap stops with, or "" when it goes on
EditorWarningBaseOnly(ed) ==
  IF ~ed.currentFile THEN "Upload an image first" ELSE ""

EditorWarning(ed) ==
  IF ~ed.currentFile THEN "Upload an image first"
  ELSE IF ed.faceSwapMode = "face-swap" /\ ~ed.faceSourceFile
    THEN "Select a face image to swap"
  ELSE IF ed.faceSwapMode = "style-transfer" /\ ~ed.styleReferenceFile
    THEN "Select a style reference image"
  ELSE ""

\* the form imageService.faceSwapImage(file, mode, faceImage, styleImage) posts
EditorRequest(ed) ==
  [origin |-> "editor", mode |-> ed.faceSwapMode, image |-> <<ValidPNG>>,
   face_image |-> IF ed.faceSwapMode = "face-swap" /\ ed.faceSourceFile
                    THEN <<ValidPNG>> ELSE << >>,
   style_image |-> IF ed.faceSwapMode = "style-transfer" /\ ed.styleReferenceFile
                     THEN <<ValidPNG>> ELSE << >>]

applyFaceSwap ==
  /\ fsPc \in {"idle", "done"}
  /\ LET warning == EditorWarning(editor) IN
       IF warning # ""
         THEN /\ editor' = [editor EXCEPT !.warning = warning]
              /\ warning # editor.warning
              /\ UNCHANGED <<fsPc, fsReq, fsRes, fsAiCalls>>
         ELSE /\ editor' = [editor EXCEPT !.isProcessing = TRUE, !.warning = ""]
              /\ fsReq' = EditorRequest(editor)
              /\ fsPc' = "multer"
              /\ fsRes' = NoFsRes
              /\ fsAiCalls' = 0
  /\ UNCHANGED notFS

\* ---- the route

\* any client posts to /api/images/face-swap
ReceiveFaceSwap(mode, image, face, style) ==
  /\ fsPc \in {"idle", "done"}
  /\ fsReq' = [origin |-> "client", mode |-> mode, image |-> image,
               face_image |-> face, style_image |-> style]
  /\ fsPc' = "multer"
  /\ fsRes' = NoFsRes
  /\ fsAiCalls' = 0
  /\ UNCHANGED editor
  /\ UNCHANGED notFS

\* upload.fields([{image, 1}, {face_image, 1}, {style_image, 1}]): first error
FieldsScan(request) ==
  LET a == MulterScan(request.image, 1, 1)
      b == MulterScan(request.face_image, 1, 1)
      c == MulterScan(request.style_image, 1, 1)
  IN IF a # "" THEN a ELSE IF b # "" THEN b ELSE c

MulterFields ==
  /\ fsPc = "multer"
  /\ LET err == FieldsScan(fsReq) IN
       IF err # ""
         THEN /\ fsRes' = errorHandler(err)
              /\ fsPc' = "done"
         ELSE /\ fsRes' = fsRes
              /\ fsPc' = "validate"
  /\ editor' = IF fsPc' = "done" /\ fsReq.origin = "editor"
                 THEN [editor EXCEPT !.isProcessing = FALSE] ELSE editor
  /\ UNCHANGED <<fsReq, fsAiCalls>>
  /\ UNCHANGED notFS

\* the error validateImageFields answers with, or none
FieldsValidation(request) ==
  IF request.image = << >> THEN [status |-> 400, error |-> "No image provided"]
  ELSE LET a == validateImageFile(request.image[1])
           b == IF request.face_image = << >> THEN NoError
                ELSE validateImageFile(request.face_image[1])
           c == IF request.style_image = << >> THEN NoError
                ELSE validateImageFile(request.style_image[1])
       IN IF a # NoError THEN a ELSE IF b # NoError THEN b ELSE c

validateImageFields ==
  /\ fsPc = "validate"
  /\ LET validationError == FieldsValidation(fsReq) IN
       IF validationError # NoError
         THEN /\ fsRes' = validationError
              /\ fsPc' = "done"
         ELSE /\ fsRes' = fsRes
              /\ fsPc' = "handler"
  /\ editor' = IF fsPc' = "done" /\ fsReq.origin = "editor"
                 THEN [editor EXCEPT !.isProcessing = FALSE] ELSE editor
  /\ UNCHANGED <<fsReq, fsAiCalls>>
  /\ UNCHANGED notFS

\* const mode = req.query.mode || 'face-swap'
RouteMode(mode) == IF mode \in {NoMode, ""} THEN "face-swap" ELSE mode

\* the 400 the handler answers before the service is called, or none
RouteRejectionStyleOnly(mode, faceFile, styleFile) ==
  IF mode = "style-transfer" /\ styleFile = << >>
    THEN [status |-> 400, error |-> "Style image required"]
  ELSE NoError

RouteRejection(mode, faceFile, styleFile) ==
  IF mode = "face-swap" /\ faceFile = << >>
    THEN [status |-> 400, error |-> "Face image required"]
  ELSE IF mode = "style-transfer" /\ styleFile = << >>
    THEN [status |-> 400, error |-> "Style image required"]
  ELSE NoError

\* the handler up to the call of imageService.faceSwapImage
FaceSwapRoute ==
  /\ fsPc = "handler"
  /\ LET rejection == RouteRejection(RouteMode(fsReq.mode), fsReq.face_image,
                                     fsReq.style_image)
     IN IF rejection # NoError
          THEN /\ fsRes' = rejection
               /\ fsPc' = "done"
               /\ UNCHANGED fsAiCalls
          ELSE /\ fsAiCalls' = fsAiCalls + 1
               /\ fsPc' = "awaiting"
               /\ fsRes' = fsRes
  /\ editor' = IF fsPc' = "done" /\ fsReq.origin = "editor"
                 THEN [editor EXCEPT !.isProcessing = FALSE] ELSE editor
  /\ UNCHANGED fsReq
  /\ UNCHANGED notFS

\* imageService.faceSwapImage returns or throws; the handler answers
FaceSwapAnswers(outcome) ==
  /\ fsPc = "awaiting"
  /\ fsRes' = CASE outcome = "ok" -> [status |-> 200, error |-> ""]
                [] outcome = "unavailable" ->
                     [status |-> 503, error |-> "AI service temporarily unavailable"]
                [] OTHER -> [status |-> 500, error |-> "Internal server error"]
  /\ fsPc' = "done"
  /\ editor' = IF fsReq.origin = "editor"
                 THEN [editor EXCEPT !.isProcessing = FALSE] ELSE editor
  /\ UNCHANGED <<fsReq, fsAiCalls>>
  /\ UNCHANGED notFS

FSNext ==
  \/ EditorLoadsFile
  \/ \E mode \in {"face-swap", "style-transfer"} : EditorSelectsMode(mode)
  \/ onFaceSourceSelected
  \/ onStyleReferenceSelected
  \/ applyFaceSwap
  \/ \E mode \in FaceSwapModes, image \in FieldChoices, face \in FaceFieldChoices,
        style \in FieldChoices : ReceiveFaceSwap(mode, image, face, style)
  \/ MulterFields
  \/ validateImageFields
  \/ FaceSwapRoute
  \/ \E outcome \in {"ok", "unavailable", "failed"} : FaceSwapAnswers(outcome)

-----------------------------------------------------------------------------
(* Claims about face swap, checked under SpecFaceSwap *)

\* the reference image the mode requires is missing from the request
MissingReference(request) ==
  \/ RouteMode(request.mode) = "face-swap" /\ request.face_image = << >>
  \/ RouteMode(request.mode) = "style-transfer" /\ request.style_image = << >>

\* the files that are in the request pass multer and validateImageFields
UploadsAccepted(request) ==
  /\ request.image # << >>
  /\ FieldsScan(request) = ""
  /\ FieldsValidation(request) = NoError

-----------------------------------------------------------------------------
(* FileSystemImageRepository: files on disk, indexed in memory *)

MaxSaves == 3
MaxRepoOps == 2

\* file.originalname of the uploads
OriginalNames == {"a.png", "b.png"}

\* the ids callers ask for: 0 is an id never issued
AskedIds == 0..MaxSaves

NoImage == [id |-> 0, originalName |-> "", fileName |-> <<0, "">>]

NoRepoResult == [op |-> "none", id |-> 0, image |-> NoImage, images |-> {}, ok |-> FALSE]

NoDelete == [done |-> FALSE, unlinked |-> FALSE, returned |-> FALSE, before |-> << >>,
             after |-> << >>]

InitRepoVars ==
  /\ images = << >>
  /\ uploadDirReady = FALSE
  /\ disk = {}
  /\ uuids = 0
  /\ repoOps = {}
  /\ savedImages = {}
  /\ deletedIds = {}
  /\ repoResult = NoRepoResult
  /\ lastDelete = NoDelete

\* uuidv4(): an id no earlier call returned
uuidv4 == uuids + 1

\* `${id}_${file.originalname}`
FileName(id, originalname) == <<id, originalname>>

\* the Image record save builds (mimeType, size and uploadedAt are not followed)
NewImage(id, originalname) ==
  [id |-> id, originalName |-> originalname, fileName |-> FileName(id, originalname)]

\* Map.prototype.set / delete / get on the index
MapSet(map, key, value) == [k \in DOMAIN map \cup {key} |-> IF k = key THEN value ELSE map[k]]

MapDelete(map, key) == [k \in DOMAIN map \ {key} |-> map[k]]

\* this.images.get(id) || null
FindById(id) == IF id \in DOMAIN images THEN images[id] ELSE NoImage

\* Array.from(this.images.values())
FindAll == {images[k] : k \in DOMAIN images}

\* the index after delete's unlink has succeeded or failed
IndexAfterUnlinkAlways(index, id, unlinked) == MapDelete(index, id)

IndexAfterUnlink(index, id, unlinked) == IF unlinked THEN MapDelete(index, id) ELSE index

\* the constructor's ensureUploadDir, not awaited, completes
ensureUploadDir ==
  /\ ~uploadDirReady
  /\ uploadDirReady' = TRUE
  /\ UNCHANGED <<images, disk, uuids, repoOps, savedImages, deletedIds, repoResult, lastDelete>>
  /\ UNCHANGED notRepo

\* save(file) up to await fs.writeFile
save(originalname) ==
  /\ uuids < MaxSaves
  /\ Cardinality(repoOps) < MaxRepoOps
  /\ uuids' = uuidv4
  /\ repoOps' = repoOps \cup {[op |-> "save", id |-> uuidv4, name |-> originalname]}
  /\ UNCHANGED <<images, uploadDirReady, disk, savedImages, deletedIds, repoResult, lastDelete>>
  /\ UNCHANGED notRepo

\* fs.writeFile settles: save indexes and returns the image, or throws
saveResume(written) ==
  \E o \in repoOps :
    /\ o.op = "save"
    /\ written => uploadDirReady
    /\ repoOps' = repoOps \ {o}
    /\ IF written
         THEN LET image == NewImage(o.id, o.name) IN
                /\ disk' = disk \cup {image.fileName}
                /\ images' = MapSet(images, o.id, image)
                /\ savedImages' = savedImages \cup {image}
                /\ repoResult' = [NoRepoResult EXCEPT !.op = "save", !.id = o.id,
                                                     !.image = image, !.ok = TRUE]
         ELSE /\ repoResult' = [NoRepoResult EXCEPT !.op = "save", !.id = o.id]
              /\ UNCHANGED <<disk, images, savedImages>>
    /\ UNCHANGED <<uploadDirReady, uuids, deletedIds, lastDelete>>
    /\ UNCHANGED notRepo

findById(id) ==
  /\ repoResult' = [NoRepoResult EXCEPT !.op = "findById", !.id = id,
                                       !.image = FindById(id),
                                       !.ok = FindById(id) # NoImage]
  /\ UNCHANGED <<images, uploadDirReady, disk, uuids, repoOps, savedImages, deletedIds,
                 lastDelete>>
  /\ UNCHANGED notRepo

findAll ==
  /\ repoResult' = [NoRepoResult EXCEPT !.op = "findAll", !.images = FindAll, !.ok = TRUE]
  /\ UNCHANGED <<images, uploadDirReady, disk, uuids, repoOps, savedImages, deletedIds,
                 lastDelete>>
  /\ UNCHANGED notRepo

\* delete(id) up to await fs.unlink; an unknown id returns false at once
delete(id) ==
  /\ Cardinality(repoOps) < MaxRepoOps
  /\ IF id \notin DOMAIN images
       THEN /\ repoResult' = [NoRepoResult EXCEPT !.op = "delete", !.id = id]
            /\ UNCHANGED repoOps
       ELSE /\ repoOps' = repoOps \cup {[op |-> "delete", id |-> id,
                                        name |-> images[id].originalName]}
            /\ UNCHANGED repoResult
  /\ UNCHANGED <<images, uploadDirReady, disk, uuids, savedImages, deletedIds, lastDelete>>
  /\ UNCHANGED notRepo

\* fs.unlink settles: delete drops the index entry and returns true, or
\* returns false; unlink fails when the file is gone, and may fail otherwise
deleteResume(unlinked) ==
  \E o \in repoOps :
    /\ o.op = "delete"
    /\ unlinked => FileName(o.id, o.name) \in disk
    /\ repoOps' = repoOps \ {o}
    /\ disk' = IF unlinked THEN disk \ {FileName(o.id, o.name)} ELSE disk
    /\ images' = IndexAfterUnlink(images, o.id, unlinked)
    /\ deletedIds' = IF unlinked THEN deletedIds \cup {o.id} ELSE deletedIds
    /\ repoResult' = [NoRepoResult EXCEPT !.op = "delete", !.id = o.id, !.ok = unlinked]
    /\ lastDelete' = [done |-> TRUE, unlinked |-> unlinked, returned |-> unlinked,
                      before |-> images, after |-> images']
    /\ UNCHANGED <<uploadDirReady, uuids, savedImages>>
    /\ UNCHANGED notRepo

RepoNext ==
  \/ ensureUploadDir
  \/ \E originalname \in OriginalNames : save(originalname)
  \/ \E written \in BOOLEAN : saveResume(written)
  \/ \E id \in AskedIds : findById(id)
  \/ findAll
  \/ \E id \in AskedIds : delete(id)
  \/ \E unlinked \in BOOLEAN : deleteResume(unlinked)

-----------------------------------------------------------------------------
(* Claims about the repository, checked under SpecRepository *)

\* the images saved and not successfully deleted
Remaining == {image \in savedImages : image.id \notin deletedIds}

\* C16: at any point of any interleaving of save and delete, findAll returns
\* exactly the images saved and not successfully deleted, findById returns
\* that image for each of their ids and null for any other id, no two saved
\* images share an id, and a delete whose unlink failed returned false and
\* left the index as it was.
C16_IndexHoldsSavedNotDeleted ==
  /\ FindAll = Remaining
  /\ \A id \in AskedIds :
       IF \E image \in Remaining : image.id = id
         THEN FindById(id) \in Remaining /\ FindById(id).id = id
         ELSE FindById(id) = NoImage
  /\ \A a, b \in savedImages : a.id = b.id => a = b
  /\ (lastDelete.done /\ ~lastDelete.unlinked) =>
       /\ ~lastDelete.returned
       /\ lastDelete.after = lastDelete.before

\* two images were saved, one was deleted, and a later delete of the other
\* failed at unlink and left it in the index
C16_Witness ==
  /\ Cardinality(savedImages) = 2
  /\ Cardinality(deletedIds) = 1
  /\ lastDelete.done
  /\ ~lastDelete.unlinked
  /\ lastDelete.before # << >>
  /\ Cardinality(FindAll) = 1
  /\ repoOps = {}

-----------------------------------------------------------------------------
(* Specifications *)

InitAI == InitAIVars /\ InitBEVars /\ InitFEVars /\ InitBRVars /\ IdleLangVars /\ InitCropVars /\ InitFSVars /\ InitRepoVars

NextAI == AINext

SpecAI == InitAI /\ [][NextAI]_vars

InitBackend == InitAIVars /\ InitBEVars /\ InitFEVars /\ InitBRVars /\ IdleLangVars /\ InitCropVars /\ InitFSVars /\ InitRepoVars

NextBackend == BENext

SpecBackend == InitBackend /\ [][NextBackend]_vars

InitFrontend == InitAIVars /\ InitBEVars /\ InitFEVars /\ InitBRVars /\ IdleLangVars /\ InitCropVars /\ InitFSVars /\ InitRepoVars

NextFrontend == FENext

SpecFrontend == InitFrontend /\ [][NextFrontend]_vars

InitRemover == InitAIVars /\ InitBEVars /\ InitFEVars /\ InitBRVars /\ IdleLangVars /\ InitCropVars /\ InitFSVars /\ InitRepoVars

NextRemover == BRNext

SpecRemover == InitRemover /\ [][NextRemover]_vars

InitLanguage == InitAIVars /\ InitBEVars /\ InitFEVars /\ InitBRVars /\ InitLangVars /\ InitCropVars /\ InitFSVars /\ InitRepoVars

NextLanguage == LangNext

SpecLanguage == InitLanguage /\ [][NextLanguage]_vars

InitCrop == InitAIVars /\ InitBEVars /\ InitFEVars /\ InitBRVars /\ IdleLangVars /\ InitCropVars /\ InitFSVars /\ InitRepoVars

NextCrop == CropNext

SpecCrop == InitCrop /\ [][NextCrop]_vars

InitFaceSwap == InitAIVars /\ InitBEVars /\ InitFEVars /\ InitBRVars /\ IdleLangVars /\ InitCropVars /\ InitFSVars /\ InitRepoVars

NextFaceSwap == FSNext

SpecFaceSwap == InitFaceSwap /\ [][NextFaceSwap]_vars

InitRepository == InitAIVars /\ InitBEVars /\ InitFEVars /\ InitBRVars /\ IdleLangVars /\ InitCropVars /\ InitFSVars /\ InitRepoVars

NextRepository == RepoNext

SpecRepository == InitRepository /\ [][NextRepository]_vars

====
